---- MODULE Spec2Model ----
\* Asset uploader (src/main.go): three HTTP handlers over a DynamoDB table
\* and an S3 signer.  Handlers run concurrently, one per request, and
\* interleave at the granularity of the calls they make to the table.
EXTENDS Integers, Sequences, FiniteSets, TLC

\* ---------------------------------------------------------------------
\* Bounds of the model
\* ---------------------------------------------------------------------

\* number of requests that can be in flight at the same time
NumProcs == 2

Procs == 1..NumProcs

\* the ids rand.Read/base64 can draw; kept small so that draws collide
Ids == {"a", "b"}

\* ---------------------------------------------------------------------
\* int64 arithmetic (Go int and time.Duration on a 64-bit build), kept as
\* 8 little-endian bytes in two's complement
\* ---------------------------------------------------------------------

RECURSIVE NatBytes(_, _)
NatBytes(n, len) ==
    IF len = 0 THEN <<>> ELSE <<n % 256>> \o NatBytes(n \div 256, len - 1)

RECURSIVE AddBytes(_, _, _)
\* a + b + carry, truncated to Len(a) bytes
AddBytes(a, b, carry) ==
    IF a = <<>> THEN <<>>
    ELSE LET s == Head(a) + Head(b) + carry
         IN  <<s % 256>> \o AddBytes(Tail(a), Tail(b), s \div 256)

RECURSIVE ScaleBytes(_, _, _)
\* a * m + carry for a small m, truncated to Len(a) bytes
ScaleBytes(a, m, carry) ==
    IF a = <<>> THEN <<>>
    ELSE LET s == Head(a) * m + carry
         IN  <<s % 256>> \o ScaleBytes(Tail(a), m, s \div 256)

ShiftBytes(a) == IF a = <<>> THEN <<>> ELSE <<0>> \o SubSeq(a, 1, Len(a) - 1)

RECURSIVE MulBytes(_, _)
\* a * b truncated to Len(a) bytes: Go's wrapping int64 multiplication
MulBytes(a, b) ==
    IF b = <<>> THEN NatBytes(0, Len(a))
    ELSE AddBytes(ScaleBytes(a, Head(b), 0), ShiftBytes(MulBytes(a, Tail(b))), 0)

RECURSIVE LtBytes(_, _)
\* unsigned a < b, for sequences of the same length
LtBytes(a, b) ==
    IF a = <<>> THEN FALSE
    ELSE LET n == Len(a)
         IN  IF a[n] # b[n] THEN a[n] < b[n]
             ELSE LtBytes(SubSeq(a, 1, n - 1), SubSeq(b, 1, n - 1))

Negative(a) == a[Len(a)] >= 128

\* signed a < b
LtInt64(a, b) ==
    IF Negative(a) # Negative(b) THEN Negative(a) ELSE LtBytes(a, b)

NegBytes(a) == AddBytes([k \in 1..Len(a) |-> 255 - a[k]], NatBytes(1, Len(a)), 0)

Int64(n) == NatBytes(n, 8)

\* ---------------------------------------------------------------------
\* strconv.Atoi on a string given as its sequence of characters
\* ---------------------------------------------------------------------

DigitChars == <<"0", "1", "2", "3", "4", "5", "6", "7", "8", "9">>

IsDigit(c) == \E d \in 1..10 : DigitChars[d] = c

DigitVal(c) == (CHOOSE d \in 1..10 : DigitChars[d] = c) - 1

RECURSIVE ParseUint(_, _)
\* the magnitude of a digit string in 9 bytes; <<>> when it passes 2^64
ParseUint(s, acc) ==
    IF s = <<>> THEN acc
    ELSE LET next == AddBytes(ScaleBytes(acc, 10, 0), NatBytes(DigitVal(Head(s)), 9), 0)
         IN  IF next[9] # 0 THEN <<>> ELSE ParseUint(Tail(s), next)

AtoiError == [ok |-> FALSE, n |-> Int64(0)]

Atoi(s) ==
    LET neg    == s # <<>> /\ Head(s) = "-"
        signed == s # <<>> /\ Head(s) \in {"-", "+"}
        digits == IF signed THEN Tail(s) ELSE s
        mag    == ParseUint(digits, NatBytes(0, 9))
        low    == SubSeq(mag, 1, 8)
    IN  IF digits = <<>> \/ \E k \in 1..Len(digits) : ~IsDigit(digits[k])
        THEN AtoiError
        ELSE IF mag = <<>> THEN AtoiError
        ELSE IF ~neg /\ Negative(low) THEN AtoiError
        ELSE IF neg /\ Negative(low) /\ low # NegBytes(low) THEN AtoiError
        ELSE [ok |-> TRUE, n |-> IF neg THEN NegBytes(low) ELSE low]

\* ---------------------------------------------------------------------
\* Constants of the program
\* ---------------------------------------------------------------------

assetStatusUploaded == "uploaded"

Second == Int64(1000000000)

defaultDownloadTimeout == MulBytes(Int64(60), Second)

maxDownloadTimeout == MulBytes(Int64(24), MulBytes(Int64(3600), Second))

uploadTimeout == MulBytes(Int64(24), MulBytes(Int64(3600), Second))

\* the last value of i for which the loop of reserveUniqueID runs
MaxRetries == 10

\* ---------------------------------------------------------------------
\* The record store (dbSvc) and the signer (s3Svc)
\* ---------------------------------------------------------------------

Nil == "nil"

ErrCodeConditionalCheckFailedException == "ConditionalCheckFailedException"

\* what a call to the table can fail with besides its condition: network,
\* throttling, permission.  Such a call leaves the table as it was.
StoreErrors == {"ProvisionedThroughputExceededException"}

\* err.(awserr.Error)
IsAwsErr(e) == e \in StoreErrors \cup {ErrCodeConditionalCheckFailedException}

\* an item is a map from attribute names to strings; no item is the empty map
NoItem == [a \in {} |-> ""]

ReservedItem(id) == [id |-> id]

\* the item of a record marked without its status attribute
UploadedItemNoStatus(id) == [id |-> id]

UploadedItem(id) == [id |-> id, status |-> assetStatusUploaded]

\* a store that never checks the condition of a write
ConditionIgnored(cond, item) == TRUE

ConditionHolds(cond, item) ==
    CASE cond = "attribute_not_exists(id)" -> "id" \notin DOMAIN item
      [] cond = "attribute_exists(id)"     -> "id" \in DOMAIN item

\* the outcomes of dbSvc.PutItem: the error it returns and the table after it
PutItem(tbl, key, item, cond) ==
    {[err |-> e, table |-> tbl] : e \in StoreErrors}
    \cup {IF ConditionHolds(cond, tbl[key])
          THEN [err |-> Nil, table |-> [tbl EXCEPT ![key] = item]]
          ELSE [err |-> ErrCodeConditionalCheckFailedException, table |-> tbl]}

\* a read without ConsistentRead, which may return the item as it was when
\* it was created
GetItemEventually(tbl, key) ==
    {[err |-> e, Item |-> NoItem] : e \in StoreErrors}
    \cup {[err |-> Nil, Item |-> tbl[key]]}
    \cup {[err |-> Nil, Item |-> ReservedItem(key)] : x \in {k \in {key} : "id" \in DOMAIN tbl[k]}}

\* the outcomes of dbSvc.GetItem with ConsistentRead
GetItem(tbl, key) ==
    {[err |-> e, Item |-> NoItem] : e \in StoreErrors}
    \cup {[err |-> Nil, Item |-> tbl[key]]}

NoURL == [verb |-> "", key |-> "", expires |-> <<>>]

\* req.Presign(expire) on the request for verb and key: a signed URL, or an
\* error when signing fails
Presign(verb, key, expire, fails) ==
    IF fails THEN [err |-> "SigningError", url |-> NoURL]
    ELSE [err |-> Nil, url |-> [verb |-> verb, key |-> key, expires |-> expire]]

\* ---------------------------------------------------------------------
\* Requests
\* ---------------------------------------------------------------------

Methods == {"GET", "PUT", "POST", "DELETE"}

\* request bodies of PUT /asset/{id} and what json.Decode makes of them
Bodies == {"{\"Status\":\"uploaded\"}", "{\"Status\":\"other\"}", "{}", "invalidjson"}

Decode(body) ==
    CASE body = "{\"Status\":\"uploaded\"}" -> [err |-> Nil, Status |-> "uploaded"]
      [] body = "{\"Status\":\"other\"}"    -> [err |-> Nil, Status |-> "other"]
      [] body = "{}"                          -> [err |-> Nil, Status |-> ""]
      [] OTHER                                -> [err |-> "SyntaxError", Status |-> ""]

\* values of the timeout query parameter, as sequences of characters
TimeoutParams ==
    { <<>>,
      <<"a", "b", "c">>,
      <<"0">>,
      <<"-", "5">>,
      <<"1">>,
      <<"3", "0", "0">>,
      <<"8", "6", "4", "0", "0">>,
      <<"8", "6", "4", "0", "1">>,
      <<"3", "6", "0", "2", "8", "7", "9", "7", "0", "1", "8", "9", "6", "3", "9", "6", "9">>,
      <<"9", "2", "2", "3", "3", "7", "2", "0", "3", "6", "8", "5", "4", "7", "7", "5", "8", "0", "8">> }

\* ---------------------------------------------------------------------
\* State
\* ---------------------------------------------------------------------

VARIABLES
    table,      \* the DynamoDB table: id -> item
    pc,         \* where the handler of each request stands
    frame,      \* the locals of each handler
    resp,       \* the response each handler wrote
    returned,   \* history: id -> successful returns of reserveUniqueID with it
    written,    \* history: ids for which the PutItem of a mark-uploaded succeeded
    marked,     \* history: ids for which a mark-uploaded answered 200
    obs         \* history of each request: what its store calls did

vars == <<table, pc, frame, resp, returned, written, marked, obs>>

NoFrame ==
    [method |-> "", assetID |-> "", body |-> "", i |-> 0, lastError |-> Nil,
     err |-> Nil, Item |-> NoItem]

NoResp ==
    [handler |-> "", method |-> "", assetID |-> "", body |-> "", timeoutStr |-> <<>>,
     code |-> 0, Allow |-> "", ID |-> "", url |-> NoURL]

NoObs ==
    [attempts |-> 0, collisionsOnly |-> TRUE, lastAttemptErr |-> Nil, putID |-> "",
     wrote |-> {}, afterMark |-> FALSE, afterWrite |-> FALSE,
     callErr |-> Nil, Item |-> NoItem, calls |-> 0, signFailed |-> FALSE]

Init ==
    /\ table = [id \in Ids |-> NoItem]
    /\ pc = [p \in Procs |-> "idle"]
    /\ frame = [p \in Procs |-> NoFrame]
    /\ resp = [p \in Procs |-> NoResp]
    /\ returned = [id \in Ids |-> 0]
    /\ written = {}
    /\ marked = {}
    /\ obs = [p \in Procs |-> NoObs]

\* a handler starts on an idle worker or after the previous response
Free(p) == pc[p] \in {"idle", "done"}

Respond(p, r) ==
    /\ pc' = [pc EXCEPT ![p] = "done"]
    /\ resp' = [resp EXCEPT ![p] = r]
    /\ frame' = [frame EXCEPT ![p] = NoFrame]

\* ---------------------------------------------------------------------
\* checkMethod
\* ---------------------------------------------------------------------

RECURSIVE Join(_, _)
Join(strs, sep) ==
    IF strs = <<>> THEN ""
    ELSE IF Len(strs) = 1 THEN Head(strs)
    ELSE Head(strs) \o sep \o Join(Tail(strs), sep)

\* a check that lets every method through
checkMethodAny(method, methods) == TRUE

checkMethod(method, methods) == \E k \in 1..Len(methods) : methods[k] = method

MethodNotAllowed(handler, methods) ==
    [NoResp EXCEPT !.handler = handler, !.code = 405, !.Allow = Join(methods, ", ")]

\* the response with the method of the request it answers
OfMethod(r, method) == [r EXCEPT !.method = method]

\* ---------------------------------------------------------------------
\* POST /asset: initAsset and reserveUniqueID
\* ---------------------------------------------------------------------

\* the history of a request that starts
NewObs(p) == [obs EXCEPT ![p] = NoObs]

\* initAsset up to its call of reserveUniqueID
InitAssetBegin(p) ==
    /\ Free(p)
    /\ \E method \in Methods :
          IF checkMethod(method, <<"POST">>)
          THEN /\ pc' = [pc EXCEPT ![p] = "reserve"]
               /\ frame' = [frame EXCEPT ![p] = [NoFrame EXCEPT !.method = method]]
               /\ resp' = [resp EXCEPT ![p] = NoResp]
          ELSE Respond(p, OfMethod(MethodNotAllowed("initAsset", <<"POST">>), method))
    /\ obs' = NewObs(p)
    /\ UNCHANGED <<table, returned, written, marked>>

\* reserveUniqueID returning "id, lastError" after a successful insert
reserveUniqueIDStaleError(f, id, err) ==
    IF err # Nil
    THEN LET g == [f EXCEPT !.lastError = err, !.i = f.i + 1]
         IN  IF g.i <= MaxRetries
             THEN [pc |-> "reserve", frame |-> g]
             ELSE [pc |-> "init_ret",
                   frame |-> [g EXCEPT !.assetID = "", !.err = g.lastError]]
    ELSE [pc |-> "init_ret", frame |-> [f EXCEPT !.assetID = id, !.err = f.lastError]]

\* reserveUniqueID keeping the first error instead of the last
reserveUniqueIDFirstError(f, id, err) ==
    IF err # Nil
    THEN LET g == [f EXCEPT !.lastError = IF @ = Nil THEN err ELSE @, !.i = f.i + 1]
         IN  IF g.i <= MaxRetries
             THEN [pc |-> "reserve", frame |-> g]
             ELSE [pc |-> "init_ret",
                   frame |-> [g EXCEPT !.assetID = "", !.err = g.lastError]]
    ELSE [pc |-> "init_ret", frame |-> [f EXCEPT !.assetID = id, !.err = Nil]]

\* reserveUniqueID going round the loop again after a successful insert
reserveUniqueIDNoReturn(f, id, err) ==
    LET g == [f EXCEPT !.lastError = IF err # Nil THEN err ELSE @, !.i = f.i + 1]
    IN  IF g.i <= MaxRetries
        THEN [pc |-> "reserve", frame |-> g]
        ELSE [pc |-> "init_ret",
              frame |-> [g EXCEPT !.assetID = "", !.err = g.lastError]]

\* reserveUniqueID returning the drawn id whatever PutItem returned
reserveUniqueIDUnchecked(f, id, err) ==
    [pc |-> "init_ret", frame |-> [f EXCEPT !.assetID = id, !.err = Nil]]

\* one turn of the loop of reserveUniqueID, after PutItem for the drawn id
\* returned err: the locals after it, and "init_ret" once the function returned
reserveUniqueID(f, id, err) ==
    IF err # Nil
    THEN LET g == [f EXCEPT !.lastError = err, !.i = f.i + 1]
         IN  IF g.i <= MaxRetries
             THEN [pc |-> "reserve", frame |-> g]
             ELSE [pc |-> "init_ret",
                   frame |-> [g EXCEPT !.assetID = "", !.err = g.lastError]]
    ELSE [pc |-> "init_ret", frame |-> [f EXCEPT !.assetID = id, !.err = Nil]]

\* the insert of reserveUniqueID without its ConditionExpression
ReservePutUnconditional(tbl, id) ==
    {[err |-> e, table |-> tbl] : e \in StoreErrors}
    \cup {[err |-> Nil, table |-> [tbl EXCEPT ![id] = ReservedItem(id)]]}

\* the conditional insert of reserveUniqueID
ReservePut(tbl, id) == PutItem(tbl, id, ReservedItem(id), "attribute_not_exists(id)")

CountReturn(f) ==
    IF f.err = Nil /\ f.assetID \in Ids /\ returned[f.assetID] < 2
    THEN [returned EXCEPT ![f.assetID] = @ + 1]
    ELSE returned

\* draw an id, try to insert it, and go round the loop or return
ReserveAttempt(p) ==
    /\ pc[p] = "reserve"
    /\ \E id \in Ids : \E out \in ReservePut(table, id) :
          LET nxt == reserveUniqueID(frame[p], id, out.err)
          IN  /\ table' = out.table
              /\ pc' = [pc EXCEPT ![p] = nxt.pc]
              /\ frame' = [frame EXCEPT ![p] = nxt.frame]
              /\ returned' = IF nxt.pc = "init_ret" THEN CountReturn(nxt.frame) ELSE returned
              /\ obs' = [obs EXCEPT ![p] =
                           [@ EXCEPT !.attempts = @ + 1,
                                     !.calls = @ + 1,
                                     !.collisionsOnly =
                                         @ /\ out.err \in {Nil, ErrCodeConditionalCheckFailedException},
                                     !.lastAttemptErr = out.err,
                                     !.putID = IF out.err = Nil THEN id ELSE @,
                                     !.wrote = IF out.table # table THEN @ \cup {id} ELSE @]]
    /\ UNCHANGED <<resp, written, marked>>

\* the signer was called and failed: the response depends on its outcome,
\* and the outcome was a failure
SignFailed(whenFails, whenSigns, signFails) == signFails /\ whenFails # whenSigns

\* initAsset after reserveUniqueID returned (assetID, err)
initAsset(f, signFails) ==
    LET r      == [NoResp EXCEPT !.handler = "initAsset", !.method = f.method]
        signed == Presign("PUT", f.assetID, uploadTimeout, signFails)
    IN  IF f.err # Nil THEN [r EXCEPT !.code = 503]
        ELSE IF signed.err # Nil THEN [r EXCEPT !.code = 500]
        ELSE [r EXCEPT !.code = 200, !.ID = f.assetID, !.url = signed.url]

InitAssetFinish(p) ==
    /\ pc[p] = "init_ret"
    /\ LET whenFails == initAsset(frame[p], TRUE)
           whenSigns == initAsset(frame[p], FALSE)
       IN  \E signFails \in BOOLEAN :
              /\ Respond(p, IF signFails THEN whenFails ELSE whenSigns)
              /\ obs' = [obs EXCEPT ![p] =
                           [NoObs EXCEPT !.wrote = obs[p].wrote,
                                         !.signFailed =
                                             SignFailed(whenFails, whenSigns, signFails)]]
    /\ UNCHANGED <<table, returned, written, marked>>

\* ---------------------------------------------------------------------
\* GET and PUT /asset/{id}: manageAsset
\* ---------------------------------------------------------------------

\* a body check that looks at the JSON only, not at the Status
markUploadedBodyAnyStatus(body) ==
    LET reqBody == Decode(body)
    IN  IF reqBody.err # Nil THEN 400 ELSE 0

\* the body check of handleMarkUploadedRequest: 0 when the body passes
markUploadedBody(body) ==
    LET reqBody == Decode(body)
    IN  IF reqBody.err # Nil THEN 400
        ELSE IF reqBody.Status # assetStatusUploaded THEN 400
        ELSE 0

\* manageAsset up to the first call to the table
ManageAsset(p) ==
    /\ Free(p)
    /\ \E method \in Methods, assetID \in Ids :
          IF ~checkMethod(method, <<"GET", "PUT">>)
          THEN /\ Respond(p, OfMethod(MethodNotAllowed("manageAsset", <<"GET", "PUT">>), method))
               /\ obs' = NewObs(p)
          ELSE IF method = "GET"
          THEN /\ pc' = [pc EXCEPT ![p] = "get"]
               /\ frame' = [frame EXCEPT ![p] =
                               [NoFrame EXCEPT !.method = method, !.assetID = assetID]]
               /\ resp' = [resp EXCEPT ![p] = NoResp]
               /\ obs' = NewObs(p)
          ELSE \E body \in Bodies :
               /\ IF markUploadedBody(body) # 0
                  THEN Respond(p, [NoResp EXCEPT !.handler = "handleMarkUploadedRequest",
                                                 !.method = method,
                                                 !.assetID = assetID,
                                                 !.body = body,
                                                 !.code = markUploadedBody(body)])
                  ELSE /\ pc' = [pc EXCEPT ![p] = "put"]
                       /\ frame' = [frame EXCEPT ![p] =
                                       [NoFrame EXCEPT !.method = method,
                                                       !.assetID = assetID,
                                                       !.body = body]]
                       /\ resp' = [resp EXCEPT ![p] = NoResp]
               /\ obs' = NewObs(p)
    /\ UNCHANGED <<table, returned, written, marked>>

\* the lookup of handleAssetURLRequest
HandleAssetURLRequestGetItem(p) ==
    /\ pc[p] = "get"
    /\ \E out \in GetItem(table, frame[p].assetID) :
          frame' = [frame EXCEPT ![p] = [@ EXCEPT !.err = out.err, !.Item = out.Item]]
    /\ pc' = [pc EXCEPT ![p] = "get_ret"]
    /\ obs' = [obs EXCEPT ![p] = [@ EXCEPT !.afterMark = frame[p].assetID \in marked,
                                           !.afterWrite = frame[p].assetID \in written,
                                           !.callErr = frame'[p].err,
                                           !.Item = frame'[p].Item,
                                           !.calls = @ + 1]]
    /\ UNCHANGED <<table, resp, returned, written, marked>>

\* a timeout that is validated and then left at the default
downloadTimeoutDefault(timeoutStr) ==
    IF timeoutStr = <<>> THEN [bad |-> FALSE, timeout |-> defaultDownloadTimeout]
    ELSE LET timeoutSec == Atoi(timeoutStr)
             timeout    == MulBytes(timeoutSec.n, Second)
         IN  IF ~timeoutSec.ok THEN [bad |-> TRUE, timeout |-> defaultDownloadTimeout]
             ELSE IF LtInt64(timeout, Second) \/ LtInt64(maxDownloadTimeout, timeout)
             THEN [bad |-> TRUE, timeout |-> timeout]
             ELSE [bad |-> FALSE, timeout |-> defaultDownloadTimeout]

\* the timeout of the download URL: bad when the parameter is refused
downloadTimeout(timeoutStr) ==
    IF timeoutStr = <<>> THEN [bad |-> FALSE, timeout |-> defaultDownloadTimeout]
    ELSE LET timeoutSec == Atoi(timeoutStr)
             timeout    == MulBytes(timeoutSec.n, Second)
         IN  IF ~timeoutSec.ok THEN [bad |-> TRUE, timeout |-> defaultDownloadTimeout]
             ELSE IF LtInt64(timeout, Second) \/ LtInt64(maxDownloadTimeout, timeout)
             THEN [bad |-> TRUE, timeout |-> timeout]
             ELSE [bad |-> FALSE, timeout |-> timeout]

\* downloadTimeout of every timeout parameter of the model, computed once
downloadTimeouts == [timeoutStr \in TimeoutParams |-> downloadTimeout(timeoutStr)]

\* an item counting as uploaded as soon as it exists
IsUploadedIfPresent(item) == "id" \in DOMAIN item

\* whether the item read counts as uploaded
IsUploaded(item) == "status" \in DOMAIN item /\ item.status = assetStatusUploaded

\* a handler that validates the timeout before it looks at the record
handleAssetURLRequestTimeoutFirst(f, timeoutStr, signFails) ==
    LET r == [NoResp EXCEPT !.handler = "handleAssetURLRequest", !.method = f.method,
                            !.assetID = f.assetID, !.timeoutStr = timeoutStr]
        t == downloadTimeouts[timeoutStr]
        signed == Presign("GET", f.assetID, t.timeout, signFails)
    IN  IF f.err # Nil THEN [r EXCEPT !.code = 500]
        ELSE IF t.bad THEN [r EXCEPT !.code = 400]
        ELSE IF "id" \notin DOMAIN f.Item THEN [r EXCEPT !.code = 404]
        ELSE IF ~IsUploaded(f.Item) THEN [r EXCEPT !.code = 202]
        ELSE IF signed.err # Nil THEN [r EXCEPT !.code = 500]
        ELSE [r EXCEPT !.code = 200, !.url = signed.url]

\* handleAssetURLRequest after GetItem returned (Item, err)
handleAssetURLRequest(f, timeoutStr, signFails) ==
    LET r == [NoResp EXCEPT !.handler = "handleAssetURLRequest", !.method = f.method,
                            !.assetID = f.assetID, !.timeoutStr = timeoutStr]
        t == downloadTimeouts[timeoutStr]
        signed == Presign("GET", f.assetID, t.timeout, signFails)
    IN  IF f.err # Nil THEN [r EXCEPT !.code = 500]
        ELSE IF "id" \notin DOMAIN f.Item THEN [r EXCEPT !.code = 404]
        ELSE IF ~IsUploaded(f.Item) THEN [r EXCEPT !.code = 202]
        ELSE IF t.bad THEN [r EXCEPT !.code = 400]
        ELSE IF signed.err # Nil THEN [r EXCEPT !.code = 500]
        ELSE [r EXCEPT !.code = 200, !.url = signed.url]

HandleAssetURLRequestFinish(p) ==
    /\ pc[p] = "get_ret"
    /\ \E timeoutStr \in TimeoutParams :
          LET whenFails == handleAssetURLRequest(frame[p], timeoutStr, TRUE)
              whenSigns == handleAssetURLRequest(frame[p], timeoutStr, FALSE)
          IN  \E signFails \in BOOLEAN :
                 /\ Respond(p, IF signFails THEN whenFails ELSE whenSigns)
                 /\ obs' = [obs EXCEPT ![p] =
                              [@ EXCEPT !.signFailed =
                                   SignFailed(whenFails, whenSigns, signFails)]]
    /\ UNCHANGED <<table, returned, written, marked>>

\* a write that is refused once the record has a status
MarkPutOnce(tbl, id) ==
    IF "status" \in DOMAIN tbl[id]
    THEN {[err |-> e, table |-> tbl] : e \in StoreErrors}
         \cup {[err |-> ErrCodeConditionalCheckFailedException, table |-> tbl]}
    ELSE PutItem(tbl, id, UploadedItem(id), "attribute_exists(id)")

\* the conditional write of handleMarkUploadedRequest
MarkPut(tbl, id) == PutItem(tbl, id, UploadedItem(id), "attribute_exists(id)")

HandleMarkUploadedPutItem(p) ==
    /\ pc[p] = "put"
    /\ \E out \in MarkPut(table, frame[p].assetID) :
          /\ table' = out.table
          /\ frame' = [frame EXCEPT ![p] = [@ EXCEPT !.err = out.err]]
          /\ written' = IF out.err = Nil THEN written \cup {frame[p].assetID} ELSE written
          /\ obs' = [obs EXCEPT ![p] =
                       [@ EXCEPT !.wrote = IF out.table # table
                                           THEN @ \cup {frame[p].assetID} ELSE @,
                                 !.callErr = out.err,
                                 !.Item = table[frame[p].assetID],
                                 !.calls = @ + 1]]
    /\ pc' = [pc EXCEPT ![p] = "put_ret"]
    /\ UNCHANGED <<resp, returned, marked>>

\* handleMarkUploadedRequest answering 500 to every failure of PutItem
handleMarkUploadedRequestNo404(f) ==
    LET r == [NoResp EXCEPT !.handler = "handleMarkUploadedRequest", !.method = f.method,
                            !.assetID = f.assetID, !.body = f.body]
    IN  IF f.err = Nil THEN [r EXCEPT !.code = 200] ELSE [r EXCEPT !.code = 500]

\* handleMarkUploadedRequest after PutItem returned err
handleMarkUploadedRequest(f) ==
    LET r == [NoResp EXCEPT !.handler = "handleMarkUploadedRequest", !.method = f.method,
                            !.assetID = f.assetID, !.body = f.body]
    IN  IF f.err = Nil THEN [r EXCEPT !.code = 200]
        ELSE IF IsAwsErr(f.err) /\ f.err = ErrCodeConditionalCheckFailedException
        THEN [r EXCEPT !.code = 404]
        ELSE [r EXCEPT !.code = 500]

\* a handler that makes its write again when the table failed
HandleMarkUploadedFinishRetry(p) ==
    /\ pc[p] = "put_ret"
    /\ IF frame[p].err \in StoreErrors
       THEN /\ pc' = [pc EXCEPT ![p] = "put"]
            /\ UNCHANGED <<frame, resp, marked>>
       ELSE /\ Respond(p, handleMarkUploadedRequest(frame[p]))
            /\ marked' = IF handleMarkUploadedRequest(frame[p]).code = 200
                         THEN marked \cup {frame[p].assetID} ELSE marked
    /\ UNCHANGED <<table, returned, written, obs>>

HandleMarkUploadedFinish(p) ==
    /\ pc[p] = "put_ret"
    /\ Respond(p, handleMarkUploadedRequest(frame[p]))
    /\ marked' = IF handleMarkUploadedRequest(frame[p]).code = 200
                 THEN marked \cup {frame[p].assetID} ELSE marked
    /\ UNCHANGED <<table, returned, written, obs>>

\* ---------------------------------------------------------------------
\* The server
\* ---------------------------------------------------------------------

Next ==
    \E p \in Procs :
        \/ InitAssetBegin(p)
        \/ ReserveAttempt(p)
        \/ InitAssetFinish(p)
        \/ ManageAsset(p)
        \/ HandleAssetURLRequestGetItem(p)
        \/ HandleAssetURLRequestFinish(p)
        \/ HandleMarkUploadedPutItem(p)
        \/ HandleMarkUploadedFinish(p)

Spec == Init /\ [][Next]_vars

\* ---------------------------------------------------------------------
\* The server after one reservation, taking well-formed requests for the
\* reserved id only
\* ---------------------------------------------------------------------

\* number of such requests that can be in flight at the same time
NumMarkProcs == 3

MarkProcs == 1..NumMarkProcs

\* the id that has been reserved
ReservedId == "a"

\* timeout parameters of the get-download requests
MarkTimeoutParams == {<<>>, <<"3", "0", "0">>}

InitMark ==
    /\ table = [id \in Ids |-> IF id = ReservedId THEN ReservedItem(id) ELSE NoItem]
    /\ pc = [p \in MarkProcs |-> "idle"]
    /\ frame = [p \in MarkProcs |-> NoFrame]
    /\ resp = [p \in MarkProcs |-> NoResp]
    /\ returned = [id \in Ids |-> IF id = ReservedId THEN 1 ELSE 0]
    /\ written = {}
    /\ marked = {}
    /\ obs = [p \in MarkProcs |-> NoObs]

\* manageAsset for a GET or a PUT with a well-formed body, for the reserved id
ManageReserved(p) ==
    /\ ManageAsset(p)
    /\ pc'[p] \in {"get", "put"}
    /\ frame'[p].assetID = ReservedId

\* handleAssetURLRequest answering a request without timeout or with a
\* timeout of 300
FinishReserved(p) ==
    /\ HandleAssetURLRequestFinish(p)
    /\ resp'[p].timeoutStr \in MarkTimeoutParams

NextMark ==
    \E p \in MarkProcs :
        \/ ManageReserved(p)
        \/ HandleAssetURLRequestGetItem(p)
        \/ FinishReserved(p)
        \/ HandleMarkUploadedPutItem(p)
        \/ HandleMarkUploadedFinish(p)

SpecMark == InitMark /\ [][NextMark]_vars

\* ---------------------------------------------------------------------
\* Properties
\* ---------------------------------------------------------------------

CCF == ErrCodeConditionalCheckFailedException

Exists(item) == "id" \in DOMAIN item

HasStatusUploaded(item) == "status" \in DOMAIN item /\ item.status = "uploaded"

IsGet(p) == pc[p] = "done" /\ resp[p].handler = "handleAssetURLRequest"

IsMark(p) == pc[p] = "done" /\ resp[p].handler = "handleMarkUploadedRequest"

IsInit(p) == pc[p] = "done" /\ resp[p].handler = "initAsset"

\* C1: no id is returned by more than one successful call of
\* reserveUniqueID, however the calls interleave and whatever they draw.
C1_UniqueReservation == \A id \in Ids : returned[id] <= 1

\* two calls have returned, with different ids, and one of them had first
\* drawn an id that was taken
C1_Witness ==
    \E p, q \in Procs :
        /\ p # q
        /\ pc[p] = "init_ret" /\ frame[p].err = Nil
        /\ pc[q] = "init_ret" /\ frame[q].err = Nil
        /\ frame[p].assetID # frame[q].assetID
        /\ frame[q].lastError = CCF
        /\ returned[frame[p].assetID] = 1 /\ returned[frame[q].assetID] = 1

\* C2: a get-download that read the table after a mark-uploaded for its id
\* had answered 200 does not answer 202, and a get-download answers 200 only
\* if the PutItem of a mark-uploaded for its id had succeeded before its read.
C2_LifecycleMonotonic ==
    \A p \in Procs :
        IsGet(p) =>
            /\ obs[p].afterMark => resp[p].code # 202
            /\ resp[p].code = 200 => obs[p].afterWrite

\* one get-download answered 200 after a mark-uploaded had answered 200, and
\* another one answered 202 for an id that is still reserved
C2_Witness ==
    \E p, q \in Procs :
        /\ IsGet(p) /\ resp[p].code = 200 /\ obs[p].afterMark
        /\ IsGet(q) /\ resp[q].code = 202 /\ ~obs[q].afterMark

\* C3: a record that exists stays, a record that is Uploaded stays Uploaded,
\* and the only change to an existing record is from Reserved to Uploaded.
C3_StoreMonotonic ==
    [][\A id \in Ids :
          /\ Exists(table[id]) => Exists(table'[id])
          /\ HasStatusUploaded(table[id]) => HasStatusUploaded(table'[id])
          /\ Exists(table[id]) /\ table'[id] # table[id] =>
                table[id] = ReservedItem(id) /\ table'[id] = UploadedItem(id)]_vars

\* a reservation has drawn the id of a record and a mark-uploaded has written
\* an Uploaded record again, both leaving the Uploaded record as it was
C3_Witness ==
    \E p, q \in Procs, id \in Ids :
        /\ HasStatusUploaded(table[id])
        /\ pc[p] = "reserve" /\ frame[p].lastError = CCF
        /\ \A other \in Ids : Exists(table[other]) => other = id
        /\ pc[q] = "put_ret" /\ frame[q].assetID = id /\ frame[q].err = Nil
        /\ obs[q].wrote = {}

InReservation(p) == pc[p] \in {"reserve", "init_ret"}

\* C4: after an insert that failed with something else than the condition,
\* reserveUniqueID has returned that error and makes no further attempt.
C4_AbortOnNonCollision ==
    \A p \in Procs :
        InReservation(p) /\ ~obs[p].collisionsOnly =>
            /\ pc[p] = "init_ret"
            /\ frame[p].err = obs[p].lastAttemptErr
            /\ frame[p].err \in StoreErrors

\* C5: when fewer than 10 inserts failed, all on the condition, and the next
\* one succeeded, reserveUniqueID returns no error and the id it inserted.
C5_CollisionRetry ==
    \A p \in Procs :
        /\ pc[p] = "init_ret"
        /\ obs[p].lastAttemptErr = Nil
        /\ obs[p].collisionsOnly
        /\ obs[p].attempts - 1 < 10
        => /\ frame[p].err = Nil
           /\ frame[p].assetID # ""
           /\ frame[p].assetID = obs[p].putID
           /\ table[obs[p].putID] # NoItem

\* a call returned after nine collisions and a tenth insert that succeeded
C5_Witness ==
    \E p \in Procs :
        /\ pc[p] = "init_ret"
        /\ obs[p].attempts = 10
        /\ obs[p].collisionsOnly
        /\ obs[p].lastAttemptErr = Nil
        /\ frame[p].lastError = CCF
        /\ frame[p].assetID \in Ids

\* C6: reserveUniqueID makes at most 11 inserts and is not in its loop after
\* the 11th; when all 11 failed it returns no id and the error of the last.
C6_Exhaustion ==
    \A p \in Procs :
        /\ obs[p].attempts <= 11
        /\ obs[p].attempts = 11 => pc[p] # "reserve"
        /\ pc[p] = "init_ret" /\ obs[p].attempts = 11 /\ obs[p].lastAttemptErr # Nil
           => frame[p].assetID = "" /\ frame[p].err = obs[p].lastAttemptErr

\* a call returned after 11 failed inserts, the last one a collision and an
\* earlier one not
C6_Witness ==
    \E p \in Procs :
        /\ pc[p] = "init_ret"
        /\ obs[p].attempts = 11
        /\ obs[p].lastAttemptErr = CCF
        /\ ~obs[p].collisionsOnly
        /\ frame[p].err = CCF

\* C7: an initiate request that answered 503 changed no record.
C7_FailedInitiateLeavesNoRecord ==
    \A p \in Procs :
        IsInit(p) /\ resp[p].code = 503 => obs[p].wrote = {}

\* an initiate request answered 503 while another one, running beside it, had
\* inserted a record
C7_Witness ==
    \E p, q \in Procs :
        /\ IsInit(p) /\ resp[p].code = 503 /\ obs[p].wrote = {}
        /\ IsInit(q) /\ resp[q].code = 200 /\ obs[q].wrote = {resp[q].ID}

\* a mark-uploaded whose body passed the check
IsWellFormedMark(p) == IsMark(p) /\ resp[p].code # 400

NeverReserved(id) == returned[id] = 0

\* C8 as stated: for an id that no reservation ever inserted, get-download
\* and a well-formed mark-uploaded answer 404, and the id has no record.
C8_UnknownId ==
    /\ \A p \in Procs :
          (IsGet(p) \/ IsWellFormedMark(p)) /\ NeverReserved(resp[p].assetID)
              => resp[p].code = 404
    /\ \A id \in Ids : NeverReserved(id) => table[id] = NoItem

\* C8 amended: for an id that no reservation ever inserted, get-download and
\* a well-formed mark-uploaded answer 404 unless their call to the table
\* failed for another reason than the condition, and then they answer 500;
\* the id has no record.
C8_UnknownIdUnlessStoreFails ==
    /\ \A p \in Procs :
          (IsGet(p) \/ IsWellFormedMark(p)) /\ NeverReserved(resp[p].assetID)
              => resp[p].code = IF obs[p].callErr \in StoreErrors THEN 500 ELSE 404
    /\ \A id \in Ids : NeverReserved(id) => table[id] = NoItem

\* a get-download and a mark-uploaded both answered 404 for ids that were
\* never reserved
C8_Witness ==
    \E p, q \in Procs :
        /\ IsGet(p) /\ resp[p].code = 404 /\ NeverReserved(resp[p].assetID)
        /\ IsWellFormedMark(q) /\ resp[q].code = 404 /\ NeverReserved(resp[q].assetID)
        /\ obs[q].callErr = CCF
        /\ table[resp[p].assetID] = NoItem /\ table[resp[q].assetID] = NoItem

\* C9: a get-download answers 200, with a URL, only when the item it read is
\* the Uploaded record of its id; when the item it read is the Reserved
\* record it answers 202 without a URL, whatever the timeout parameter.
C9_DownloadGate ==
    \A p \in Procs :
        IsGet(p) =>
            /\ resp[p].code = 200 =>
                  /\ obs[p].callErr = Nil
                  /\ obs[p].Item = UploadedItem(resp[p].assetID)
                  /\ resp[p].url.verb = "GET" /\ resp[p].url.key = resp[p].assetID
            /\ resp[p].url # NoURL => resp[p].code = 200
            /\ obs[p].callErr = Nil /\ obs[p].Item = ReservedItem(resp[p].assetID) =>
                  resp[p].code = 202 /\ resp[p].url = NoURL

\* one get-download answered 200 with a URL, and another one, with a timeout
\* of 300 seconds, answered 202 for a Reserved record
C9_Witness ==
    \E p, q \in Procs :
        /\ IsGet(p) /\ resp[p].code = 200 /\ resp[p].url # NoURL
        /\ IsGet(q) /\ resp[q].code = 202
        /\ resp[q].timeoutStr = <<"3", "0", "0">>
        /\ obs[q].Item = ReservedItem(resp[q].assetID)

\* the timeout parameter is an integer t with 1 <= t <= 86400
InRange(timeoutStr) ==
    LET t == Atoi(timeoutStr)
    IN  t.ok /\ ~LtInt64(t.n, Int64(1)) /\ ~LtInt64(Int64(86400), t.n)

\* a get-download that read the Uploaded record of its id and was given a
\* non-empty timeout parameter
IsGetUploadedWithTimeout(p) ==
    /\ IsGet(p)
    /\ obs[p].callErr = Nil
    /\ obs[p].Item = UploadedItem(resp[p].assetID)
    /\ resp[p].timeoutStr # <<>>

\* C10: for an Uploaded id and a non-empty timeout parameter t, get-download
\* answers 200 only if t is an integer with 1 <= t <= 86400 (and then it
\* answers 200 unless signing fails), and in every other case it answers 400
\* and issues no URL.
C10_TTLBounds ==
    \A p \in Procs :
        IsGetUploadedWithTimeout(p) =>
            IF InRange(resp[p].timeoutStr)
            THEN resp[p].code \in {200, 500}
            ELSE resp[p].code = 400 /\ resp[p].url = NoURL

RECURSIVE Decimal(_, _)
\* the number written by a short string of digits
Decimal(s, acc) ==
    IF s = <<>> THEN acc ELSE Decimal(Tail(s), 10 * acc + DigitVal(Head(s)))

\* a validity of t seconds in the signer's unit, the nanosecond
Seconds(t) == ScaleBytes(NatBytes(1000000000, 8), t, 0)

\* a get-download that read the Uploaded record of its id
IsGetUploaded(p) ==
    IsGet(p) /\ obs[p].callErr = Nil /\ HasStatusUploaded(obs[p].Item)

\* C11: for an Uploaded id, the validity of the URL that get-download got
\* from the signer is exactly 60 seconds when there is no timeout parameter
\* and exactly t seconds when the parameter is an integer t with
\* 1 <= t <= 86400; the request is then answered 200 unless signing fails.
C11_ResolvedTTL ==
    \A p \in Procs :
        IsGetUploaded(p) =>
            /\ resp[p].timeoutStr = <<>> =>
                  /\ resp[p].code \in {200, 500}
                  /\ resp[p].code = 200 => resp[p].url.expires = Seconds(60)
            /\ InRange(resp[p].timeoutStr) =>
                  /\ resp[p].code \in {200, 500}
                  /\ resp[p].code = 200 =>
                        resp[p].url.expires = Seconds(Decimal(resp[p].timeoutStr, 0))

\* one get-download without a timeout got a URL valid for 60 seconds, and
\* another one with timeout=86400 got a URL valid for 86400 seconds
C11_Witness ==
    \E p, q \in Procs :
        /\ IsGetUploaded(p) /\ resp[p].code = 200 /\ resp[p].timeoutStr = <<>>
        /\ resp[p].url.expires = Seconds(60)
        /\ IsGetUploaded(q) /\ resp[q].code = 200
        /\ resp[q].timeoutStr = <<"8", "6", "4", "0", "0">>
        /\ resp[q].url.expires = Seconds(86400)

\* a body that parses as JSON with Status "uploaded"
WellFormed(body) == body = "{\"Status\":\"uploaded\"}"

\* a mark-uploaded with a well-formed body that has been answered
IsMarkUploaded(p) == IsMark(p) /\ WellFormed(resp[p].body)

\* a well-formed mark-uploaded whose write found the record already Uploaded
IsRemark(p) == IsMarkUploaded(p) /\ HasStatusUploaded(obs[p].Item)

\* C12: a well-formed mark-uploaded whose write finds the record of its id
\* already Uploaded answers 200 and leaves the record exactly as it was.
C12_RemarkIdempotent ==
    \A p \in Procs :
        IsRemark(p) =>
            /\ resp[p].code = 200
            /\ obs[p].wrote = {}
            /\ table[resp[p].assetID] = obs[p].Item

\* C12 amended: a well-formed mark-uploaded whose write finds the record of
\* its id already Uploaded answers 200, or 500 when the write fails for
\* another reason than the condition; either way the record is exactly as
\* it was.
C12_RemarkIdempotentUnlessStoreFails ==
    \A p \in Procs :
        IsRemark(p) =>
            /\ resp[p].code = IF obs[p].callErr \in StoreErrors THEN 500 ELSE 200
            /\ obs[p].wrote = {}
            /\ table[resp[p].assetID] = obs[p].Item

\* a mark-uploaded made a record Uploaded and answered 200, and a second one
\* for the same id found it Uploaded, answered 200 and changed nothing
C12_Witness ==
    \E p, q \in Procs :
        /\ IsMarkUploaded(p) /\ resp[p].code = 200
        /\ obs[p].wrote = {resp[p].assetID}
        /\ IsRemark(q) /\ resp[q].code = 200 /\ resp[q].assetID = resp[p].assetID
        /\ obs[q].wrote = {}
        /\ table[resp[q].assetID] = obs[q].Item

\* a mark-uploaded with a body that is not JSON or whose Status is not
\* "uploaded", and that has been answered
IsMarkInvalid(p) == IsMark(p) /\ ~WellFormed(resp[p].body)

\* C13: a mark-uploaded whose body is not parsable JSON or whose Status is
\* not "uploaded" answers 400 and makes no call to the table, so it writes
\* nothing.
C13_InvalidBody ==
    \A p \in Procs :
        IsMarkInvalid(p) =>
            /\ resp[p].code = 400
            /\ obs[p].calls = 0
            /\ obs[p].wrote = {}

\* a body that is not JSON was answered 400 for an id without record, and
\* a body with another Status was answered 400 for an Uploaded id
C13_Witness ==
    \E p, q \in Procs :
        /\ IsMarkInvalid(p) /\ resp[p].code = 400 /\ resp[p].body = "invalidjson"
        /\ table[resp[p].assetID] = NoItem
        /\ IsMarkInvalid(q) /\ resp[q].code = 400 /\ resp[q].body = "{\"Status\":\"other\"}"
        /\ HasStatusUploaded(table[resp[q].assetID])

\* a request to /asset that has been answered
OnAsset(p) == pc[p] = "done" /\ resp[p].handler = "initAsset"

\* a request to /asset/{id} that has been answered
OnAssetID(p) ==
    /\ pc[p] = "done"
    /\ resp[p].handler \in {"manageAsset", "handleAssetURLRequest",
                            "handleMarkUploadedRequest"}

\* the request called neither the table nor the signer
NoCalls(p) ==
    /\ obs[p].calls = 0 /\ obs[p].attempts = 0 /\ obs[p].wrote = {}
    /\ ~obs[p].signFailed /\ resp[p].url = NoURL /\ resp[p].ID = ""

\* C14: a request to /asset with another method than POST, and a request to
\* /asset/{id} with another method than GET and PUT, is answered 405 with an
\* Allow header that lists exactly the permitted methods, and calls neither
\* the table nor the signer.
C14_MethodGating ==
    \A p \in Procs :
        /\ OnAsset(p) /\ resp[p].method # "POST" =>
              resp[p].code = 405 /\ resp[p].Allow = "POST" /\ NoCalls(p)
        /\ OnAssetID(p) /\ resp[p].method \notin {"GET", "PUT"} =>
              resp[p].code = 405 /\ resp[p].Allow = "GET, PUT" /\ NoCalls(p)

\* a PUT to /asset and a DELETE to /asset/{id} were both answered 405
C14_Witness ==
    \E p, q \in Procs :
        /\ OnAsset(p) /\ resp[p].method = "PUT"
        /\ resp[p].code = 405 /\ resp[p].Allow = "POST"
        /\ OnAssetID(q) /\ resp[q].method = "DELETE"
        /\ resp[q].code = 405 /\ resp[q].Allow = "GET, PUT"

\* an initiate request that has been answered 200
IsInitiated(q) == IsInit(q) /\ resp[q].code = 200

\* the id is in the 200 response of an initiate request
Issued(id) == \E q \in DOMAIN pc : IsInitiated(q) /\ resp[q].ID = id

\* the step in which the mark-uploaded of p makes its write
MarkWrites(p) == pc[p] = "put" /\ pc'[p] = "put_ret"

\* C15: an initiate request answers 200 with an id only after its own
\* conditional insert of that id succeeded, so the record is there; the write
\* of a mark-uploaded for an id that is in the 200 response of an initiate
\* request does not fail on its condition, and a well-formed mark-uploaded
\* answers 404 only when its write failed on the condition.
C15_ReservationPrecedesReference ==
    /\ [](\A p \in Procs :
            /\ IsInitiated(p) =>
                  /\ resp[p].ID \in Ids
                  /\ obs[p].wrote = {resp[p].ID}
                  /\ Exists(table[resp[p].ID])
            /\ IsMarkUploaded(p) /\ resp[p].code = 404 => obs[p].callErr = CCF)
    /\ [][\A p \in Procs :
             MarkWrites(p) /\ Issued(frame[p].assetID) => frame'[p].err # CCF]_vars

\* a well-formed mark-uploaded for the id that an initiate request returned
\* in its 200 response has made its write, which succeeded
C15_Witness ==
    \E p, q \in Procs :
        /\ IsInitiated(q)
        /\ pc[p] = "put_ret" /\ frame[p].assetID = resp[q].ID
        /\ WellFormed(frame[p].body)
        /\ frame[p].err = Nil /\ obs[p].wrote = {resp[q].ID}

\* the step in which the get-download of p reads the table
GetReads(p) == pc[p] = "get" /\ pc'[p] = "get_ret"

\* neither the call to the table nor the signing failed
NoFailure(p) == obs[p].callErr \notin StoreErrors /\ ~obs[p].signFailed

\* C16: with no failure of the table or the signer, for an id that is in the
\* 200 response of an initiate request: a get-download that reads before any
\* mark-uploaded wrote finds the Reserved record and answers 202; a
\* mark-uploaded with body {"Status":"uploaded"} writes and answers 200; a
\* get-download with timeout=300 that reads after a mark-uploaded answered
\* 200 answers 200 with a URL valid for 300 seconds.  A get-download for an
\* id that was never reserved answers 404.
C16_EndToEnd ==
    /\ [][\A p \in Procs :
             /\ GetReads(p) /\ Issued(frame[p].assetID) /\ frame'[p].err = Nil =>
                   /\ Exists(frame'[p].Item)
                   /\ frame[p].assetID \notin written => ~HasStatusUploaded(frame'[p].Item)
             /\ MarkWrites(p) /\ Issued(frame[p].assetID)
                   /\ frame'[p].err \notin StoreErrors => frame'[p].err = Nil]_vars
    /\ [](\A p \in Procs :
            /\ IsGet(p) /\ NoFailure(p) =>
                  /\ Exists(obs[p].Item) /\ ~HasStatusUploaded(obs[p].Item) =>
                        resp[p].code = 202
                  /\ obs[p].afterMark /\ resp[p].timeoutStr = <<"3", "0", "0">> =>
                        /\ resp[p].code = 200
                        /\ resp[p].url = [verb |-> "GET", key |-> resp[p].assetID,
                                          expires |-> Seconds(300)]
                  /\ NeverReserved(resp[p].assetID) => resp[p].code = 404
            /\ IsMarkUploaded(p) /\ obs[p].callErr = Nil => resp[p].code = 200)

\* for the id in the 200 response of an initiate request, a mark-uploaded
\* has answered 200 and a get-download with timeout=300 that read after it
\* answered 200 with a URL valid for 300 seconds
C16_Witness ==
    \E p, q \in Procs :
        /\ IsInitiated(q)
        /\ IsGet(p) /\ resp[p].assetID = resp[q].ID
        /\ obs[p].afterMark /\ NoFailure(p)
        /\ resp[p].timeoutStr = <<"3", "0", "0">>
        /\ resp[p].code = 200 /\ resp[p].url.expires = Seconds(300)

\* p is in a get-download or a mark-uploaded that went past the method check
InManage(p) == pc[p] \in {"get", "get_ret", "put", "put_ret"}

\* C17: a get-download and a mark-uploaded make at most one call to the
\* table, and when that call fails for another reason than the condition the
\* request is answered 500 after that one call.
C17_NoRetry ==
    \A p \in Procs :
        /\ InManage(p) \/ IsGet(p) \/ IsMark(p) => obs[p].calls <= 1
        /\ (IsGet(p) \/ IsMark(p)) /\ obs[p].callErr \in StoreErrors =>
              resp[p].code = 500 /\ obs[p].calls = 1

\* a mark-uploaded and a get-download whose one call to the table failed
\* have both answered 500
C17_Witness ==
    \E p, q \in Procs :
        /\ IsMark(p) /\ obs[p].callErr \in StoreErrors
        /\ resp[p].code = 500 /\ obs[p].calls = 1
        /\ IsGet(q) /\ obs[q].callErr \in StoreErrors
        /\ resp[q].code = 500 /\ obs[q].calls = 1

\* the timeout parameter parses as an int and is greater than 86400
ParsesAbove(timeoutStr) ==
    LET t == Atoi(timeoutStr) IN t.ok /\ LtInt64(Int64(86400), t.n)

\* C18: for an Uploaded id, every timeout parameter that parses as an int
\* greater than 86400 is answered 400 and gets no URL, also when its
\* product with the nanoseconds of a second wraps.
C18_OverflowRejected ==
    \A p \in Procs :
        IsGetUploaded(p) /\ ParsesAbove(resp[p].timeoutStr) =>
            resp[p].code = 400 /\ resp[p].url = NoURL

\* C19: of the well-formed mark-uploaded requests that run concurrently for
\* one Reserved id, each one answers 200 unless its call to the table fails;
\* once one of them has written, the record is Uploaded; a get-download that
\* runs between them never answers 404, and answers 202 or 200 unless the
\* table or the signer fails.
C19_ConcurrentMarks ==
    /\ \A p \in MarkProcs :
          /\ IsMarkUploaded(p) /\ obs[p].callErr \notin StoreErrors => resp[p].code = 200
          /\ IsGet(p) => resp[p].code # 404
          /\ IsGet(p) /\ NoFailure(p) => resp[p].code \in {202, 200}
    /\ \A id \in written \cup marked : HasStatusUploaded(table[id])

\* one mark-uploaded has written and not answered yet; a get-download read
\* the Uploaded record before any mark-uploaded had answered, and answered
\* 200; a second mark-uploaded wrote after the first and answered 200
C19_Witness ==
    \E p, q, r \in MarkProcs :
        /\ pc[p] = "put_ret" /\ frame[p].err = Nil /\ obs[p].wrote = {ReservedId}
        /\ IsMarkUploaded(q) /\ resp[q].code = 200 /\ obs[q].wrote = {}
        /\ IsGet(r) /\ resp[r].code = 200 /\ ~obs[r].afterMark
        /\ HasStatusUploaded(table[ReservedId])

\* a timeout parameter that is present and is not an integer t with
\* 1 <= t <= 86400
InvalidTimeout(timeoutStr) == timeoutStr # <<>> /\ ~InRange(timeoutStr)

\* C20: a get-download with an invalid timeout parameter answers 500 when
\* its read of the table fails, 404 when it reads no record and 202 when it
\* reads a Reserved record; it answers 400 only when it read an Uploaded
\* record.
C20_OutcomePrecedence ==
    \A p \in Procs :
        IsGet(p) /\ InvalidTimeout(resp[p].timeoutStr) =>
            /\ obs[p].callErr \in StoreErrors => resp[p].code = 500
            /\ obs[p].callErr = Nil /\ ~Exists(obs[p].Item) => resp[p].code = 404
            /\ obs[p].callErr = Nil /\ Exists(obs[p].Item)
                  /\ ~HasStatusUploaded(obs[p].Item) => resp[p].code = 202
            /\ resp[p].code = 400 =>
                  obs[p].callErr = Nil /\ HasStatusUploaded(obs[p].Item)

\* of two get-downloads with timeout=abc and timeout=0, one answered 404
\* for an id without record and the other 202 for a Reserved record
C20_Witness ==
    \E p, q \in Procs :
        /\ IsGet(p) /\ resp[p].timeoutStr = <<"a", "b", "c">>
        /\ obs[p].callErr = Nil /\ ~Exists(obs[p].Item) /\ resp[p].code = 404
        /\ IsGet(q) /\ resp[q].timeoutStr = <<"0">>
        /\ obs[q].callErr = Nil /\ Exists(obs[q].Item)
        /\ ~HasStatusUploaded(obs[q].Item) /\ resp[q].code = 202

====
